---------------------------- MODULE Spec2Model ----------------------------
(***************************************************************************)
(* A model of src/main.py, the daily job-digest pipeline:                  *)
(*   get_best_model -> search_jobs -> analyze_job_fit / parse_analysis     *)
(*   (at most five listings) -> sort -> send_daily_email.                  *)
(*                                                                         *)
(* Text is modelled as a sequence of one-character strings, so that the    *)
(* regular-expression searches, the substring tests and the keyword        *)
(* replacement are computed character by character as the code does.       *)
(***************************************************************************)
EXTENDS Integers, Sequences, FiniteSets, TLC

VARIABLES
    pc,             \* position of the run: main()'s statements, or "call"/"returned"
    arg,            \* the input of the function a function-level specification applies
    ret,            \* what that function returned
    key_present,    \* GEMINI_API_KEY is set in the environment
    creds_present,  \* SENDER_EMAIL / EMAIL_PASSWORD / RECEIVER_EMAIL are set
    model,          \* the module-level `model` (NoModel for None)
    jobs,           \* main(): the listings search_jobs returned
    analyzed,       \* main(): the scored jobs accumulated by the loop
    digest,         \* the job_data list handed to send_daily_email
    outbox,         \* the e-mails the SMTP server accepted (their cards)
    log             \* what the run did to the outside: calls made and their outcomes

vars == <<pc, arg, ret, key_present, creds_present, model, jobs, analyzed,
          digest, outbox, log>>

(***************************************************************************)
(* Bounds of the model.                                                    *)
(***************************************************************************)
MaxLines == 3
MaxScraped == 6
MaxTableRows == 3
MaxModels == 3
MaxFragments == 3

(***************************************************************************)
(* Python values: str, None and NaN.                                       *)
(***************************************************************************)
\* A value of a result-table cell or of a module-level name: a str (its
\* characters), None, or a float NaN object (s holds the object's identity).
Str(cs) == [py |-> "str", s |-> cs]
None == [py |-> "None", s |-> <<>>]
NaN(id) == [py |-> "nan", s |-> <<id>>]

\* str(v), also what an f-string renders
str(v) ==
    CASE v.py = "str"  -> v.s
      [] v.py = "None" -> <<"N", "o", "n", "e">>
      [] v.py = "nan"  -> <<"n", "a", "n">>

\* bool(v): a NaN is a non-zero float, hence true
truthy(v) == v.py = "nan" \/ (v.py = "str" /\ v.s # <<>>)

Min(S) == CHOOSE x \in S : \A y \in S : x <= y

(***************************************************************************)
(* Characters and the regular-expression pieces the code uses.             *)
(***************************************************************************)
Digits == <<"0", "1", "2", "3", "4", "5", "6", "7", "8", "9">>

IsDigit(c) == \E k \in 1..Len(Digits) : Digits[k] = c

DigitVal(c) == (CHOOSE k \in 1..Len(Digits) : Digits[k] = c) - 1

\* \s of the re module, over the characters the model's texts use
IsSpace(c) == c \in {" ", "\t", "\n", "\r"}

\* the literal lit occurs in text at position i
MatchAt(lit, text, i) ==
    /\ i >= 1
    /\ i + Len(lit) - 1 <= Len(text)
    /\ \A k \in 1..Len(lit) : text[i + k - 1] = lit[k]

\* \s* from position i, greedy: the first position that holds no white space
SkipSpace(text, i) ==
    CHOOSE j \in i..(Len(text) + 1) :
        /\ \A k \in i..(j - 1) : IsSpace(text[k])
        /\ j = Len(text) + 1 \/ ~IsSpace(text[j])

\* \d+ from position i, greedy: the first position that holds no digit
SkipDigits(text, i) ==
    CHOOSE j \in i..(Len(text) + 1) :
        /\ \A k \in i..(j - 1) : IsDigit(text[k])
        /\ j = Len(text) + 1 \/ ~IsDigit(text[j])

\* .* from position i, greedy: the dot matches anything but a line feed
SkipLine(text, i) ==
    CHOOSE j \in i..(Len(text) + 1) :
        /\ \A k \in i..(j - 1) : text[k] # "\n"
        /\ j = Len(text) + 1 \/ text[j] = "\n"

RECURSIVE int(_)
int(ds) ==
    IF ds = <<>> THEN 0
    ELSE 10 * int(SubSeq(ds, 1, Len(ds) - 1)) + DigitVal(ds[Len(ds)])

L_SCORE == <<"S", "C", "O", "R", "E", ":">>
L_WHY == <<"W", "H", "Y", ":">>
L_STRATEGY == <<"S", "T", "R", "A", "T", "E", "G", "Y", ":">>

NoMatch == [matched |-> FALSE]

\* re.search(r"SCORE:\s*(\d+)", text): the leftmost position where the label,
\* any white space and at least one digit follow one another; group 1
re_search_digits(label, text) ==
    LET Hits == {i \in 1..Len(text) :
                    /\ MatchAt(label, text, i)
                    /\ LET j == SkipSpace(text, i + Len(label))
                       IN  j <= Len(text) /\ IsDigit(text[j])}
    IN  IF Hits = {} THEN NoMatch
        ELSE LET j == SkipSpace(text, Min(Hits) + Len(label))
             IN  [matched |-> TRUE,
                  group1  |-> SubSeq(text, j, SkipDigits(text, j) - 1)]

\* re.search(r"WHY:\s*(.*)", text): the leftmost occurrence of the label always
\* matches; group 1 starts after the white space (line feeds included) that
\* follows the label and runs to the end of that line
re_search_rest(label, text) ==
    LET Hits == {i \in 1..Len(text) : MatchAt(label, text, i)}
    IN  IF Hits = {} THEN NoMatch
        ELSE LET j == SkipSpace(text, Min(Hits) + Len(label))
             IN  [matched |-> TRUE,
                  group1  |-> SubSeq(text, j, SkipLine(text, j) - 1)]

(***************************************************************************)
(* parse_analysis                                                          *)
(***************************************************************************)
DefaultScore == 0
DefaultWhy == <<"C", "h", "e", "c", "k", " ", "l", "i", "n", "k", " ", "m", "a", "n", "u", "a", "l", "l", "y", ".">>
DefaultStrategy == <<"N", "/", "A">>

parse_analysis(text) ==
    IF text = <<>>
    THEN [score |-> DefaultScore, why |-> DefaultWhy, strategy |-> DefaultStrategy]
    ELSE LET s  == re_search_digits(L_SCORE, text)
             w  == re_search_rest(L_WHY, text)
             st == re_search_rest(L_STRATEGY, text)
         IN  [score    |-> IF s.matched THEN int(s.group1) ELSE DefaultScore,
              why      |-> IF w.matched THEN w.group1 ELSE DefaultWhy,
              strategy |-> IF st.matched THEN st.group1 ELSE DefaultStrategy]

(***************************************************************************)
(* highlight_keywords                                                      *)
(***************************************************************************)
keywords == <<
    <<"R", "H", "C", "S", "A">>,
    <<"L", "i", "n", "u", "x">>,
    <<"N", "o", "d", "e", ".", "j", "s">>,
    <<"K", "u", "b", "e", "r", "n", "e", "t", "e", "s">>,
    <<"D", "o", "c", "k", "e", "r">>,
    <<"D", "e", "v", "O", "p", "s">>,
    <<"M", "o", "n", "g", "o", "D", "B">>,
    <<"E", "x", "p", "r", "e", "s", "s">>,
    <<"S", "y", "s", "t", "e", "m", " ", "A", "d", "m", "i", "n">>,
    <<"S", "R", "E">>,
    <<"P", "y", "t", "h", "o", "n">>,
    <<"A", "W", "S">>,
    <<"C", "I", "/", "C", "D">>
>>

UpperCase == <<"A", "B", "C", "D", "E", "F", "G", "H", "I", "J", "K", "L", "M", "N", "O", "P", "Q", "R", "S", "T", "U", "V", "W", "X", "Y", "Z">>
LowerCase == <<"a", "b", "c", "d", "e", "f", "g", "h", "i", "j", "k", "l", "m", "n", "o", "p", "q", "r", "s", "t", "u", "v", "w", "x", "y", "z">>

\* str.lower() of one character
lower_char(c) ==
    IF \E k \in 1..Len(UpperCase) : UpperCase[k] = c
    THEN LowerCase[CHOOSE k \in 1..Len(UpperCase) : UpperCase[k] = c]
    ELSE c

\* str.lower()
lower(cs) == [k \in 1..Len(cs) |-> lower_char(cs[k])]

\* the pattern matches at position i, letter case respected (no re.IGNORECASE)
pattern_match_exact(word, text, i) == MatchAt(word, text, i)

\* re.compile(re.escape(word), re.IGNORECASE) matches at position i of text
pattern_match(word, text, i) ==
    /\ i >= 1
    /\ i + Len(word) - 1 <= Len(text)
    /\ \A k \in 1..Len(word) : lower_char(text[i + k - 1]) = lower_char(word[k])

SpanOpen ==
    <<"<", "s", "p", "a", "n", " ", "s", "t", "y", "l", "e", "=", "\"", "b", "a", "c", "k", "g", "r", "o", "u", "n", "d", "-", "c", "o", "l", "o", "r", ":", " ", "#", "e", "3", "f", "2", "f", "d", ";", " ", "c", "o", "l", "o", "r", ":", " ", "#", "0", "d", "4", "7", "a", "1", ";", " ", "f", "o", "n", "t", "-", "w", "e", "i", "g", "h", "t", ":", " ", "b", "o", "l", "d", ";", " ", "p", "a", "d", "d", "i", "n", "g", ":", " ", "0", " ", "4", "p", "x", ";", " ", "b", "o", "r", "d", "e", "r", "-", "r", "a", "d", "i", "u", "s", ":", " ", "3", "p", "x", ";", "\"", ">">>
SpanClose == <<"<", "/", "s", "p", "a", "n", ">">>

\* the replacement string built for one keyword
replacement(word) == SpanOpen \o word \o SpanClose

\* pattern.sub(replacement, text) from position i on: the matches are taken
\* leftmost first and do not overlap; the text between them is copied
RECURSIVE pattern_sub(_, _, _)
pattern_sub(word, text, i) ==
    LET Hits == {j \in i..Len(text) : pattern_match(word, text, j)}
        hit  == Min(Hits)
    IN  IF Hits = {} THEN SubSeq(text, i, Len(text))
        ELSE SubSeq(text, i, hit - 1) \o replacement(word)
                 \o pattern_sub(word, text, hit + Len(word))

\* the for loop over the keywords, from the k-th keyword on
RECURSIVE highlight_from(_, _)
highlight_from(k, text) ==
    IF k > Len(keywords) THEN text
    ELSE highlight_from(k + 1, pattern_sub(keywords[k], text, 1))

highlight_keywords(text) ==
    IF text = <<>> THEN <<>> ELSE highlight_from(1, text)

(***************************************************************************)
(* get_best_model                                                          *)
(***************************************************************************)
\* sub in text
contains(sub, text) == \E i \in 1..Len(text) : MatchAt(sub, text, i)

S_flash == <<"f", "l", "a", "s", "h">>
S_pro == <<"p", "r", "o">>
S_1_5 == <<"1", ".", "5">>
S_gemini_pro == <<"g", "e", "m", "i", "n", "i", "-", "p", "r", "o">>

\* the outcome of genai.list_models(): the call raises, or yields models, each
\* with its name and whether 'generateContent' is among its generation methods
ListingRaises == [raises |-> TRUE, models |-> <<>>]
Listing(ms) == [raises |-> FALSE, models |-> ms]

\* the first loop: the names of the models that support generateContent
RECURSIVE available_models(_)
available_models(ms) ==
    IF ms = <<>> THEN <<>>
    ELSE (IF ms[1].generate THEN <<ms[1].name>> ELSE <<>>) \o available_models(Tail(ms))

is_flash(m) == contains(S_flash, m) /\ contains(S_1_5, m)
is_pro(m) == contains(S_pro, m) /\ contains(S_1_5, m)

\* "for m in available_models: if <test>: selected_name = m; break", from the
\* head of names on; None when no name passes
RECURSIVE first_flash(_)
first_flash(names) ==
    IF names = <<>> THEN None
    ELSE IF is_flash(names[1]) THEN Str(names[1])
    ELSE first_flash(Tail(names))

RECURSIVE first_pro(_)
first_pro(names) ==
    IF names = <<>> THEN None
    ELSE IF is_pro(names[1]) THEN Str(names[1])
    ELSE first_pro(Tail(names))

\* the selection with the two searches in the opposite order
select_model_pro_first(names) ==
    LET pro == first_pro(names)
        flash == IF ~truthy(pro) THEN first_flash(names) ELSE pro
    IN  IF ~truthy(flash) /\ names # <<>> THEN Str(names[1]) ELSE flash

\* selected_name after the three steps of the strategy
select_model(names) ==
    LET flash == first_flash(names)
        pro == IF ~truthy(flash) THEN first_pro(names) ELSE flash
    IN  IF ~truthy(pro) /\ names # <<>> THEN Str(names[1]) ELSE pro

\* the model get_best_model returns: None, or the GenerativeModel of a name
get_best_model(key, listing) ==
    IF ~key THEN None
    ELSE IF listing.raises THEN Str(S_gemini_pro)
    ELSE select_model(available_models(listing.models))

(***************************************************************************)
(* search_jobs                                                             *)
(***************************************************************************)
target_cities == <<
    <<"D", "e", "l", "h", "i">>,
    <<"N", "o", "i", "d", "a">>,
    <<"G", "u", "r", "g", "a", "o", "n">>,
    <<"G", "u", "r", "u", "g", "r", "a", "m">>,
    <<"J", "a", "i", "p", "u", "r">>,
    <<"U", "d", "a", "i", "p", "u", "r">>
>>

\* the outcome of scrape_jobs(): the call raises, or returns a table whose
\* rows to_dict('records') turns into records, in order (no rows: the table is
\* empty, or the result has no `empty` attribute).  A record carries row, its
\* position in the table, which stands for the identity of the dict; the
\* description column reaches only the prompt and is left out.
ScrapeRaises == [raises |-> TRUE, rows |-> <<>>]
Scraped(rows) == [raises |-> FALSE, rows |-> rows]

\* the location filter with the location's letter case kept as it is
location_ok_case_kept(job) ==
    \E c \in 1..Len(target_cities) : contains(lower(target_cities[c]), str(job.location))

\* line 111-112: some target city, lower-cased, is in the lower-cased location
location_ok(job) ==
    LET loc == lower(str(job.location))
    IN  \E c \in 1..Len(target_cities) : contains(lower(target_cities[c]), loc)

\* line 116: the URL when it is true, else the title and the company rendered
\* one after the other
job_id(job) ==
    IF truthy(job.job_url) THEN job.job_url
    ELSE Str(str(job.title) \o str(job.company))

\* the for loop from row k on, with the ids seen and the jobs kept so far.
\* `job_id in seen_ids` compares by identity, then by ==: two str are the same
\* id when their characters agree, a NaN only when it is the same object.
RECURSIVE scan_rows(_, _, _, _)
scan_rows(rows, k, seen_ids, unique_jobs) ==
    IF k > Len(rows) THEN unique_jobs
    ELSE IF ~location_ok(rows[k]) THEN scan_rows(rows, k + 1, seen_ids, unique_jobs)
    ELSE IF job_id(rows[k]) \in seen_ids THEN scan_rows(rows, k + 1, seen_ids, unique_jobs)
    ELSE scan_rows(rows, k + 1, seen_ids \cup {job_id(rows[k])},
                   Append(unique_jobs, rows[k]))

search_jobs(scrape) ==
    IF scrape.raises THEN <<>>
    ELSE scan_rows(scrape.rows, 1, {}, <<>>)

(***************************************************************************)
(* analyze_job_fit, the sort and send_daily_email                          *)
(***************************************************************************)
ConfigErrorReply ==
    <<"S", "C", "O", "R", "E", ":", " ", "0", "\n", "W", "H", "Y", ":", " ", "A", "I", " ", "C", "o", "n", "f", "i", "g", " ", "E", "r", "r", "o", "r", ".", "\n", "S", "T", "R", "A", "T", "E", "G", "Y", ":", " ", "N", "/", "A">>
SentinelReply ==
    <<"S", "C", "O", "R", "E", ":", " ", "5", "0", "\n", "W", "H", "Y", ":", " ", "A", "I", " ", "u", "n", "a", "v", "a", "i", "l", "a", "b", "l", "e", " ", "(", "E", "r", "r", "o", "r", ")", ".", "\n", "S", "T", "R", "A", "T", "E", "G", "Y", ":", " ", "C", "h", "e", "c", "k", " ", "m", "a", "n", "u", "a", "l", "l", "y", ".">>

\* the outcome of model.generate_content(prompt): the call (or reading
\* response.text) raises, or the reply text is returned
GenerateRaises == [raises |-> TRUE, text |-> <<>>]
Generated(text) == [raises |-> FALSE, text |-> text]

\* analyze_job_fit with the configuration-error reply returned from the handler
analyze_job_fit_wrong_default(m, gen) ==
    IF ~truthy(m) \/ gen.raises THEN ConfigErrorReply ELSE gen.text

\* analyze_job_fit: without a model no call is made; a raising call is caught
\* and answered with the sentinel reply
analyze_job_fit(m, gen) ==
    IF ~truthy(m) THEN ConfigErrorReply
    ELSE IF gen.raises THEN SentinelReply
    ELSE gen.text

\* the dict main() appends for a listing and its parsed reply
scored_job(job, parsed) ==
    [title |-> job.title, company |-> job.company, location |-> job.location,
     link |-> job.job_url, score |-> parsed.score, why |-> parsed.why,
     strategy |-> parsed.strategy]

\* the place of js[i] in a descending sort that puts equal scores in the
\* reverse of their order in js
place_ties_reversed(js, i) ==
    1 + Cardinality({j \in 1..Len(js) : js[j].score > js[i].score})
      + Cardinality({j \in 1..Len(js) : j > i /\ js[j].score = js[i].score})

\* the place of js[i] after the sort: behind the entries of greater score and
\* behind the entries of equal score that precede it in js
place(js, i) ==
    1 + Cardinality({j \in 1..Len(js) : js[j].score > js[i].score})
      + Cardinality({j \in 1..Len(js) : j < i /\ js[j].score = js[i].score})

\* analyzed.sort(key=lambda x: x['score'], reverse=True): list.sort is stable,
\* and reverse=True keeps the order of entries with equal keys
sort_by_score(js) ==
    [p \in 1..Len(js) |-> js[CHOOSE i \in 1..Len(js) : place(js, i) = p]]

HighScore == 80
MediumScore == 50

\* the badge class of a score
badge(score) ==
    IF score >= HighScore THEN "high" ELSE IF score >= MediumScore THEN "med" ELSE "low"

Reply_73 == <<"S", "C", "O", "R", "E", ":", " ", "7", "3", "\n", "W", "H", "Y", ":", " ", "g", "o", "o", "d", " ", "f", "i", "t", "\n", "S", "T", "R", "A", "T", "E", "G", "Y", ":", " ", "D", "o", "c", "k", "e", "r">>
Reply_150 == <<"S", "C", "O", "R", "E", ":", " ", "1", "5", "0", "\n", "W", "H", "Y", ":", " ", "L", "i", "n", "u", "x", "\n", "S", "T", "R", "A", "T", "E", "G", "Y", ":", " ", "S", "R", "E">>
Reply_50 == <<"S", "C", "O", "R", "E", ":", " ", "5", "0", "\n", "W", "H", "Y", ":", " ", "o", "k", "\n", "S", "T", "R", "A", "T", "E", "G", "Y", ":", " ", "A", "W", "S">>

\* what generate_content may do for one listing
RunGenerates ==
    {GenerateRaises, Generated(Reply_73), Generated(Reply_150), Generated(Reply_50),
     Generated(<<>>)}

\* the texts analyze_job_fit can return in a run, and parse_analysis of each,
\* computed once
RunTexts == {ConfigErrorReply, SentinelReply} \cup {gen.text : gen \in RunGenerates}
Parsed == [text \in RunTexts |-> parse_analysis(text)]

\* s, w, strat = parse_analysis(raw) in main()
parse(raw) == IF raw \in RunTexts THEN Parsed[raw] ELSE parse_analysis(raw)

\* the rationale texts a reply of the run can lead to
RunWhys == {Parsed[text].why : text \in RunTexts}

\* highlight_keywords of those texts, computed once
Highlighted == [w \in RunWhys |-> highlight_keywords(w)]

\* highlight_keywords(job['why']) as the body embeds it
highlight(w) == IF w \in RunWhys THEN Highlighted[w] ELSE highlight_keywords(w)

\* the job cards of the HTML body, one per job, in order
cards(job_data) ==
    [k \in 1..Len(job_data) |->
        [color |-> badge(job_data[k].score), score |-> job_data[k].score,
         title |-> job_data[k].title, company |-> job_data[k].company,
         location |-> job_data[k].location,
         why |-> highlight(job_data[k].why),
         strategy |-> job_data[k].strategy, link |-> job_data[k].link]]

\* the slice jobs[:5]
MaxAnalyzed == 5
head(js) == SubSeq(js, 1, IF Len(js) < MaxAnalyzed THEN Len(js) ELSE MaxAnalyzed)

\* the external calls made inside a try whose except clause catches Exception
caught_all_but_scrape(site) == site \in {"list_models", "generate_content", "smtp"}
caught_all_but_smtp(site) == site \in {"list_models", "scrape_jobs", "generate_content"}
caught(site) == site \in {"list_models", "scrape_jobs", "generate_content", "smtp"}

\* the variables of the whole run, which a function-level specification leaves idle
runVars == <<key_present, creds_present, model, jobs, analyzed, digest, outbox, log>>

\* nothing called yet: the outcome of list_models and of scrape_jobs, the number
\* of rows scraped, the outcome of generate_content per analyzed listing, and
\* the outcome of the SMTP session
NoCalls ==
    [list_models |-> "not called", scrape_jobs |-> "not called", rows |-> 0,
     generate_content |-> <<>>, smtp |-> "not called"]

IdleRun ==
    /\ key_present = FALSE
    /\ creds_present = FALSE
    /\ model = None
    /\ jobs = <<>>
    /\ analyzed = <<>>
    /\ digest = <<>>
    /\ outbox = <<>>
    /\ log = NoCalls

\* "\n".join(lines)
RECURSIVE Join(_)
Join(ls) ==
    IF ls = <<>> THEN <<>>
    ELSE IF Len(ls) = 1 THEN ls[1]
    ELSE ls[1] \o <<"\n">> \o Join(Tail(ls))

SeqsUpTo(S, n) == UNION {[1..k -> S] : k \in 0..n}

(***************************************************************************)
(* SpecParse: parse_analysis applied to bounded reply texts.  A reply is   *)
(* made of lines; a line is a label (or none), a separator and a value.    *)
(***************************************************************************)
Labels == [SCORE |-> L_SCORE, WHY |-> L_WHY, STRATEGY |-> L_STRATEGY, none |-> <<>>]

LineValues == {<<>>, <<"7", "3">>, <<"o", "k">>}

ReplyLines ==
    {l \in [label : DOMAIN Labels, sep : {<<>>, <<" ">>}, value : LineValues] :
        l.label = "none" => l.sep = <<>>}

LineText(l) == Labels[l.label] \o l.sep \o l.value

ReplyText(lines) == Join([k \in 1..Len(lines) |-> LineText(lines[k])])

InitParse ==
    /\ pc = "call"
    /\ arg \in SeqsUpTo(ReplyLines, MaxLines)
    /\ ret = None
    /\ IdleRun

CallParse ==
    /\ pc = "call"
    /\ ret' = parse_analysis(ReplyText(arg))
    /\ pc' = "returned"
    /\ UNCHANGED <<arg, runVars>>

SpecParse == InitParse /\ [][CallParse]_vars

\* the lines of a reply that carry label lab
LinesOf(lines, lab) == {k \in 1..Len(lines) : lines[k].label = lab}

AllDigits(cs) == cs # <<>> /\ \A k \in 1..Len(cs) : IsDigit(cs[k])

\* a reply in the format the prompt asks for: each label on at most one line,
\* and a number after SCORE:
InFormat(lines) ==
    /\ \A lab \in {"SCORE", "WHY", "STRATEGY"} : Cardinality(LinesOf(lines, lab)) <= 1
    /\ \A k \in LinesOf(lines, "SCORE") : AllDigits(lines[k].value)

\* what the line labelled lab says, or dflt when no line carries the label
FieldOf(lines, lab, dflt) ==
    IF LinesOf(lines, lab) = {} THEN dflt
    ELSE lines[CHOOSE k \in LinesOf(lines, lab) : TRUE].value

\* C8: parse_analysis extracts the three fields independently: the result is
\* exactly the number after SCORE:, the text after WHY: on its line and the
\* text after STRATEGY: on its line; a field whose label is missing takes its
\* default, and a label followed by an empty line does not disturb this.
C8_FieldsIndependent ==
    (pc = "returned" /\ InFormat(arg)) =>
        /\ ret.score = (IF LinesOf(arg, "SCORE") = {} THEN DefaultScore
                        ELSE int(FieldOf(arg, "SCORE", <<>>)))
        /\ ret.why = FieldOf(arg, "WHY", DefaultWhy)
        /\ ret.strategy = FieldOf(arg, "STRATEGY", DefaultStrategy)

(***************************************************************************)
(* SpecHighlight: highlight_keywords applied to bounded rationale texts,   *)
(* each a concatenation of a few fragments.                                *)
(***************************************************************************)
Fragments == {
    <<"I", " ", "k", "n", "o", "w", " ", "D", "o", "c", "k", "e", "r", " ", "a", "n", "d", " ", "L", "i", "n", "u", "x">>,
    <<"l", "i", "n", "u", "x", " ", "c", "i", "/", "c", "d", " ">>,
    <<"D", "e", "v", "O", "p", "s">>,
    <<"r", "e">>,
    <<"a", "w", "s">>
}

RECURSIVE Concat(_)
Concat(ss) == IF ss = <<>> THEN <<>> ELSE ss[1] \o Concat(Tail(ss))

InitHighlight ==
    /\ pc = "call"
    /\ arg \in {Concat(fs) : fs \in SeqsUpTo(Fragments, MaxFragments)}
    /\ ret = None
    /\ IdleRun

CallHighlight ==
    /\ pc = "call"
    /\ ret' = Str(highlight_keywords(arg))
    /\ pc' = "returned"
    /\ UNCHANGED <<arg, runVars>>

SpecHighlight == InitHighlight /\ [][CallHighlight]_vars

\* the occurrences of vocabulary keywords in text: <<position, keyword index>>,
\* compared letter by letter without regard to case
Occurrences(text) ==
    {o \in (1..Len(text)) \X (1..Len(keywords)) :
        /\ o[1] + Len(keywords[o[2]]) - 1 <= Len(text)
        /\ \A k \in 1..Len(keywords[o[2]]) :
              LET a == text[o[1] + k - 1]
                  b == keywords[o[2]][k]
              IN  a = b \/ lower_char(a) = b \/ a = lower_char(b)}

Overlap(o1, o2) ==
    /\ o1 # o2
    /\ o1[1] <= o2[1] + Len(keywords[o2[2]]) - 1
    /\ o2[1] <= o1[1] + Len(keywords[o1[2]]) - 1

\* text with exactly the occurrences in W wrapped in the styled span, the
\* keyword written as in the keyword list, and every other character copied
RECURSIVE Wrapped(_, _, _)
Wrapped(text, W, i) ==
    LET Next == {o \in W : o[1] >= i}
    IN  IF Next = {} THEN SubSeq(text, i, Len(text))
        ELSE LET o == CHOOSE o \in Next : \A o2 \in Next : o[1] <= o2[1]
             IN  SubSeq(text, i, o[1] - 1) \o SpanOpen \o keywords[o[2]] \o SpanClose
                     \o Wrapped(text, W, o[1] + Len(keywords[o[2]]))

\* the occurrences among Occ that overlap no occurrence of a keyword earlier
\* in the list
Unobstructed(Occ) ==
    {o \in Occ : \A o2 \in Occ : Overlap(o, o2) => o2[2] > o[2]}

\* C9 as stated: every occurrence of a keyword is wrapped exactly once, in the
\* keyword list's casing, nothing else is changed and no inserted text is
\* matched again.
C9_EveryOccurrenceWrapped ==
    pc = "returned" =>
        LET Occ == Occurrences(arg)
        IN  /\ \A o1, o2 \in Occ : ~Overlap(o1, o2)
            /\ ret = Str(Wrapped(arg, Occ, 1))

\* C9 (amended): the result is the text with a set of pairwise disjoint keyword
\* occurrences wrapped exactly once each, in the keyword list's casing, and
\* everything else unchanged; every occurrence that overlaps no occurrence of
\* a keyword earlier in the list is among the wrapped ones.
C9_UnobstructedWrapped ==
    pc = "returned" =>
        LET Occ  == Occurrences(arg)
            Free == Unobstructed(Occ)
        IN  \E W \in SUBSET Occ :
                /\ Free \subseteq W
                /\ \A o1, o2 \in W : ~Overlap(o1, o2)
                /\ ret = Str(Wrapped(arg, W, 1))

\* an input with a keyword in other casing and an occurrence that an earlier
\* keyword's occurrence overlaps has been highlighted
C9_Witness ==
    /\ pc = "returned"
    /\ \E o \in Occurrences(arg) : ~MatchAt(keywords[o[2]], arg, o[1])
    /\ Unobstructed(Occurrences(arg)) # Occurrences(arg)
    /\ Unobstructed(Occurrences(arg)) # {}
    /\ ret # Str(arg)

(***************************************************************************)
(* SpecModel: get_best_model applied to bounded model listings.            *)
(***************************************************************************)
ModelNames == {
    <<"m", "o", "d", "e", "l", "s", "/", "g", "e", "m", "i", "n", "i", "-", "1", ".", "5", "-", "f", "l", "a", "s", "h">>,
    <<"m", "o", "d", "e", "l", "s", "/", "g", "e", "m", "i", "n", "i", "-", "1", ".", "5", "-", "p", "r", "o">>,
    <<"m", "o", "d", "e", "l", "s", "/", "g", "e", "m", "i", "n", "i", "-", "2", ".", "0", "-", "f", "l", "a", "s", "h">>,
    <<"m", "o", "d", "e", "l", "s", "/", "g", "e", "m", "i", "n", "i", "-", "p", "r", "o">>,
    <<"m", "o", "d", "e", "l", "s", "/", "g", "e", "m", "m", "a", "-", "3">>
}

Listings ==
    {ListingRaises} \cup
    {Listing(ms) : ms \in SeqsUpTo([name : ModelNames, generate : BOOLEAN], MaxModels)}

InitModel ==
    /\ pc = "call"
    /\ arg \in [key : BOOLEAN, listing : Listings]
    /\ ret = None
    /\ IdleRun

CallModel ==
    /\ pc = "call"
    /\ ret' = get_best_model(arg.key, arg.listing)
    /\ pc' = "returned"
    /\ UNCHANGED <<arg, runVars>>

SpecModel == InitModel /\ [][CallModel]_vars

\* the positions of the listed models that generate text
Generating(ms) == {k \in 1..Len(ms) : ms[k].generate}

HasWord(word, name) ==
    \E i \in 1..(Len(name) - Len(word) + 1) : SubSeq(name, i, i + Len(word) - 1) = word

T_a == <<"a">>
T_ab == <<"a", "b">>
T_bc == <<"b", "c">>
T_c == <<"c">>
URL_1 == <<"h", "t", "t", "p", ":", "/", "/", "u", "/", "1">>

\* a float column of the table yields a new NaN object per cell, an object
\* column the NaN objects that were stored in it: both identities occur
SampleIdentities == {
    [job_url |-> Str(URL_1), title |-> Str(T_a), company |-> Str(T_bc)],
    [job_url |-> Str(URL_1), title |-> Str(T_ab), company |-> Str(T_bc)],
    [job_url |-> None, title |-> Str(T_a), company |-> Str(T_bc)],
    [job_url |-> Str(<<>>), title |-> Str(T_a), company |-> Str(T_bc)],
    [job_url |-> None, title |-> Str(T_ab), company |-> Str(T_c)],
    [job_url |-> NaN("1"), title |-> Str(T_a), company |-> Str(T_bc)],
    [job_url |-> NaN("2"), title |-> Str(T_a), company |-> Str(T_bc)]
}

L_NEW_Delhi == <<"N", "E", "W", " ", "D", "e", "l", "h", "i">>
L_Mumbai == <<"M", "u", "m", "b", "a", "i">>

\* locations besides L_NEW_Delhi: local in lower case, elsewhere, and missing
\* (None, NaN, the empty text)
OtherLocations == {Str(<<"n", "o", "i", "d", "a", ",", " ", "U", "P">>), Str(L_Mumbai), None, NaN("1"), Str(<<>>)}

Cell(id, loc) ==
    [job_url |-> id.job_url, title |-> id.title, company |-> id.company,
     location |-> loc]

\* every identity at L_NEW_Delhi, and the URL_1 listing at the other locations
SampleCells ==
    {Cell(id, Str(L_NEW_Delhi)) : id \in SampleIdentities} \cup
    {Cell([job_url |-> Str(URL_1), title |-> Str(T_a), company |-> Str(T_bc)], loc) :
        loc \in OtherLocations}

\* the records of a table whose rows hold the given cells
Records(cells) ==
    [k \in 1..Len(cells) |->
        [row |-> k, job_url |-> cells[k].job_url, title |-> cells[k].title,
         company |-> cells[k].company, location |-> cells[k].location]]

InitSearch ==
    /\ pc = "call"
    /\ arg \in {ScrapeRaises} \cup
               {Scraped(Records(cells)) : cells \in SeqsUpTo(SampleCells, MaxTableRows)}
    /\ ret = None
    /\ IdleRun

CallSearch ==
    /\ pc = "call"
    /\ ret' = [py |-> "list", s |-> search_jobs(arg)]
    /\ pc' = "returned"
    /\ UNCHANGED <<arg, runVars>>

SpecSearch == InitSearch /\ [][CallSearch]_vars

\* row k of the table is in the returned list
Retained(k) == \E i \in 1..Len(ret.s) : ret.s[i].row = k

SameLetter(a, b) ==
    \E u \in 1..Len(UpperCase) : {a, b} \subseteq {UpperCase[u], LowerCase[u]}

\* the location is text that holds a target city, whatever the letter case
Local(job) ==
    /\ job.location.py = "str"
    /\ \E c \in 1..Len(target_cities) :
          \E i \in 1..(Len(job.location.s) - Len(target_cities[c]) + 1) :
              \A k \in 1..Len(target_cities[c]) :
                  \/ job.location.s[i + k - 1] = target_cities[c][k]
                  \/ SameLetter(job.location.s[i + k - 1], target_cities[c][k])

UrlAbsent(job) == job.job_url \in {None, Str(<<>>)} \/ job.job_url.py = "nan"

\* two listings the specification calls duplicates of each other
Duplicates(a, b) ==
    \/ ~UrlAbsent(a) /\ ~UrlAbsent(b) /\ a.job_url = b.job_url
    \/ UrlAbsent(a) /\ UrlAbsent(b) /\ a.title = b.title /\ a.company = b.company

\* C3: of two listings that pass the locality filter and have the same URL, or
\* the same title and company when the URL is absent (None, empty or NaN), only
\* the first is in the output, and the output keeps the input order.
C3_FirstOccurrenceOnly ==
    pc = "returned" =>
        /\ \A j, k \in 1..Len(arg.rows) :
              (j < k /\ Local(arg.rows[j]) /\ Local(arg.rows[k])
                     /\ Duplicates(arg.rows[j], arg.rows[k])) => ~Retained(k)
        /\ \A i, j \in 1..Len(ret.s) : i < j => ret.s[i].row < ret.s[j].row

\* C4: a listing of the table is returned, unless an earlier returned listing
\* has its id, if and only if its location holds one of the target cities,
\* whatever the letter case; a listing with a missing location is not returned.
C4_LocalityFilter ==
    pc = "returned" =>
        \A k \in 1..Len(arg.rows) :
            /\ Retained(k) => Local(arg.rows[k])
            /\ arg.rows[k].location.py # "str" => ~Retained(k)
            /\ Local(arg.rows[k]) =>
                  \/ Retained(k)
                  \/ \E j \in 1..(k - 1) :
                        Retained(j) /\ job_id(arg.rows[j]) = job_id(arg.rows[k])

\* a table with a local listing in another letter case than the city list's, a
\* listing elsewhere and a listing without location has been filtered
C4_Witness ==
    /\ pc = "returned"
    /\ Len(arg.rows) = 3
    /\ arg.rows[1].location = Str(L_Mumbai)
    /\ arg.rows[2].location = None
    /\ arg.rows[3].location = Str(L_NEW_Delhi)
    /\ Len(ret.s) = 1
    /\ Retained(3)

(***************************************************************************)
(* Spec: one run of the program, from the import of the module to the end  *)
(* of main(), with every external call free to succeed or to raise.        *)
(***************************************************************************)
M_flash_15 == <<"m", "o", "d", "e", "l", "s", "/", "g", "e", "m", "i", "n", "i", "-", "1", ".", "5", "-", "f", "l", "a", "s", "h">>

\* what list_models may do in a run
RunListings ==
    {ListingRaises, Listing(<<>>), Listing(<<[name |-> M_flash_15, generate |-> TRUE]>>)}

\* the k-th listing of a sample table: its own URL and title; in a "mixed"
\* table the odd rows are elsewhere, in a "repeat" table the even rows repeat
\* the URL of the row before them
SampleCell(k, kind) ==
    LET u == IF kind = "repeat" /\ k % 2 = 0 THEN k - 1 ELSE k
    IN  [job_url  |-> Str(URL_1 \o <<Digits[u + 1]>>),
         title    |-> Str(<<"T", Digits[k + 1]>>),
         company  |-> Str(T_bc),
         location |-> IF kind = "mixed" /\ k % 2 = 1 THEN Str(L_Mumbai)
                      ELSE Str(L_NEW_Delhi)]

\* what scrape_jobs may do in a run
RunScrapes ==
    {ScrapeRaises} \cup
    {Scraped(Records([k \in 1..n |-> SampleCell(k, kind)])) :
        n \in 0..MaxScraped, kind \in {"local", "mixed", "repeat"}}

Init ==
    /\ pc = "import"
    /\ arg = None
    /\ ret = None
    /\ key_present \in BOOLEAN
    /\ creds_present \in BOOLEAN
    /\ model = None
    /\ jobs = <<>>
    /\ analyzed = <<>>
    /\ digest = <<>>
    /\ outbox = <<>>
    /\ log = NoCalls

\* line 73, model = get_best_model(): list_models is called only with a key
Import ==
    /\ pc = "import"
    /\ \E listing \in (IF key_present THEN RunListings ELSE {Listing(<<>>)}) :
          /\ log' = [log EXCEPT !.list_models =
                        IF ~key_present THEN "not called"
                        ELSE IF listing.raises THEN "raised" ELSE "ok"]
          /\ IF key_present /\ listing.raises /\ ~caught("list_models")
             THEN pc' = "unhandled" /\ model' = model
             ELSE pc' = "search" /\ model' = get_best_model(key_present, listing)
    /\ UNCHANGED <<arg, ret, key_present, creds_present, jobs, analyzed, digest, outbox>>

\* lines 225-228, jobs = search_jobs() and the early return
Search ==
    /\ pc = "search"
    /\ \E scrape \in RunScrapes :
          /\ log' = [log EXCEPT !.scrape_jobs = IF scrape.raises THEN "raised" ELSE "ok",
                                !.rows = Len(scrape.rows)]
          /\ IF scrape.raises /\ ~caught("scrape_jobs")
             THEN pc' = "unhandled" /\ jobs' = jobs
             ELSE /\ jobs' = search_jobs(scrape)
                  /\ pc' = IF jobs' = <<>> THEN "done" ELSE "analyze"
    /\ UNCHANGED <<arg, ret, key_present, creds_present, model, analyzed, digest, outbox>>

\* lines 233-249, one turn of the loop over jobs[:5]: generate_content is
\* called only with a model
Analyze ==
    /\ pc = "analyze"
    /\ Len(analyzed) < Len(head(jobs))
    /\ LET job == head(jobs)[Len(analyzed) + 1]
       IN  \E gen \in (IF truthy(model) THEN RunGenerates ELSE {Generated(<<>>)}) :
              /\ log' = [log EXCEPT !.generate_content =
                            Append(@, IF ~truthy(model) THEN "not called"
                                      ELSE IF gen.raises THEN "raised" ELSE "ok")]
              /\ IF truthy(model) /\ gen.raises /\ ~caught("generate_content")
                 THEN pc' = "unhandled" /\ analyzed' = analyzed
                 ELSE /\ analyzed' = Append(analyzed,
                             scored_job(job, parse(analyze_job_fit(model, gen))))
                      /\ pc' = IF Len(analyzed') < Len(head(jobs)) THEN "analyze" ELSE "send"
    /\ UNCHANGED <<arg, ret, key_present, creds_present, model, jobs, digest, outbox>>

\* lines 252-253 and send_daily_email: the sort, the body, and the SMTP
\* session, which cannot succeed without the credentials
Send ==
    /\ pc = "send"
    /\ digest' = sort_by_score(analyzed)
    /\ IF digest' = <<>>
       THEN pc' = "done" /\ UNCHANGED <<outbox, log>>
       ELSE \E smtp \in (IF creds_present THEN {"ok", "raised"} ELSE {"raised"}) :
               /\ log' = [log EXCEPT !.smtp = smtp]
               /\ outbox' = IF smtp = "ok" THEN Append(outbox, cards(digest')) ELSE outbox
               /\ pc' = IF smtp = "raised" /\ ~caught("smtp") THEN "unhandled" ELSE "done"
    /\ UNCHANGED <<arg, ret, key_present, creds_present, model, jobs, analyzed>>

Next == Import \/ Search \/ Analyze \/ Send

Spec == Init /\ [][Next]_vars

\* the interpreter runs the program's statements one after the other
FairSpec == Spec /\ WF_vars(Next)

\* the run has handed a digest to send_daily_email
Sent == pc \in {"done", "unhandled"} /\ digest # <<>>

\* C1: every scored job of the digest has a score in 0..100, whatever the
\* reply text was and whether or not the model call failed.
C1_ScoreInRange ==
    \A k \in 1..Len(digest) : digest[k].score \in 0..100

\* C2: when search_jobs returns no listing (the collector failed, the table
\* was empty, or no row passed the locality filter) the run ends without
\* error, having called neither the language model nor the SMTP server.
C2_NoJobsEndsQuietly ==
    (log.scrape_jobs # "not called" /\ jobs = <<>>) =>
        /\ pc = "done"
        /\ log.generate_content = <<>>
        /\ log.smtp = "not called"
        /\ digest = <<>>
        /\ outbox = <<>>

\* a run that had a model, and whose collector returned rows of which none
\* passed the locality filter, has ended
C2_Witness ==
    /\ pc = "done"
    /\ truthy(model)
    /\ log.scrape_jobs = "ok"
    /\ log.rows > 0
    /\ jobs = <<>>

\* the entries of the digest made from the k-th listing of jobs
EntriesOf(k) ==
    {e \in 1..Len(digest) :
        /\ digest[e].title = jobs[k].title
        /\ digest[e].company = jobs[k].company
        /\ digest[e].link = jobs[k].job_url}

Sentinel_why == <<"A", "I", " ", "u", "n", "a", "v", "a", "i", "l", "a", "b", "l", "e", " ", "(", "E", "r", "r", "o", "r", ")", ".">>
Sentinel_strategy == <<"C", "h", "e", "c", "k", " ", "m", "a", "n", "u", "a", "l", "l", "y", ".">>
SentinelScore == 50

\* C5: when the model call fails for one of the first five listings, the run
\* goes on, all of the first five listings are processed, and the listing is
\* in the digest exactly once, with the sentinel score, rationale and strategy.
C5_FailedCallGetsSentinel ==
    (pc \in {"send", "done"} /\ jobs # <<>>) =>
        /\ Len(log.generate_content) = Len(head(jobs))
        /\ Len(analyzed) = Len(head(jobs))
        /\ pc = "done" =>
              /\ Len(digest) = Len(head(jobs))
              /\ \A k \in 1..Len(log.generate_content) :
                    log.generate_content[k] = "raised" =>
                        /\ Cardinality(EntriesOf(k)) = 1
                        /\ \A e \in EntriesOf(k) :
                              /\ digest[e].score = SentinelScore
                              /\ digest[e].why = Sentinel_why
                              /\ digest[e].strategy = Sentinel_strategy

\* the call failed for the second of five listings and succeeded for the
\* others, and the digest went out
C5_Witness ==
    /\ pc = "done"
    /\ Len(jobs) > MaxAnalyzed
    /\ Len(digest) = MaxAnalyzed
    /\ log.generate_content[2] = "raised"
    /\ \A k \in {1, 3, 4, 5} : log.generate_content[k] = "ok"
    /\ log.smtp = "ok"
    /\ Len(outbox) = 1

\* C6: no failure of an external call is fatal: whatever fails, and with the
\* API key or the mail credentials absent, the run comes to its normal end.
C6_RunCompletes == <>(pc = "done")

\* a run in which the model listing, a model call and the SMTP session all
\* failed, without mail credentials, has come to its normal end
C6_Witness ==
    /\ pc = "done"
    /\ log.list_models = "raised"
    /\ \E k \in 1..Len(log.generate_content) : log.generate_content[k] = "raised"
    /\ log.smtp = "raised"
    /\ ~creds_present

\* the position in jobs of the listing a digest entry was made from
ListingOf(e) == CHOOSE k \in 1..Len(jobs) : e \in EntriesOf(k)

\* C7: the list handed to send_daily_email is non-increasing by score, and
\* jobs of equal score keep the order they had among the filtered listings.
C7_SortedStable ==
    Sent =>
        \A d, e \in 1..Len(digest) :
            d < e =>
                /\ digest[d].score >= digest[e].score
                /\ digest[d].score = digest[e].score => ListingOf(d) < ListingOf(e)

\* a digest of five with two equal scores that were not neighbours before the
\* sort, and a higher score that came last
C7_Witness ==
    /\ Sent
    /\ Len(digest) = MaxAnalyzed
    /\ analyzed[1].score = analyzed[3].score
    /\ analyzed[2].score < analyzed[1].score
    /\ analyzed[5].score > analyzed[1].score
    /\ digest[1] = analyzed[5]

=============================================================================
